---- MODULE Spec2Model ----
(***************************************************************************)
(* Model of the short-term session memory of the RAG orchestrator          *)
(* (Backend/app/services/short_term_memory.py, TimeBasedSessionManager)    *)
(* and of the request handlers that drive it (Backend/app/api).            *)
(*                                                                         *)
(* The handlers are coroutines of one asyncio event loop, as the FastAPI   *)
(* application runs them (every route is an `async def`).  Every           *)
(* `with self._lock:` block of the source is one block operator of the     *)
(* model, which maps the shared state and the handler's locals to their    *)
(* values after the block.  A task runs block after block until it reaches *)
(* an await that really suspends (the HTTP call that stores a summary, the *)
(* retrieval call of the chat handler), until its handler returns, or      *)
(* until it blocks on the lock; that run is one step.  pc[t] is where task *)
(* t stopped and loc[t] holds the locals of its handler.                   *)
(*                                                                         *)
(* The retrieval fusion (Backend/app/services/rag_pipeline.py) and the     *)
(* metadata enrichment of the vector service (VECTOR_STORAGE_SERVICE/app)  *)
(* are modelled the same way, each under a specification of its own.       *)
(***************************************************************************)
EXTENDS Integers, Sequences, FiniteSets, TLC

VARIABLES
    sessions,           \* self._sessions: session id -> list of turns
    keys,               \* key order of the self._sessions dict (insertion order)
    meta,               \* self._session_metadata: id -> idle time since last_accessed
    current,            \* self._current_session_id
    max_messages,       \* self.max_messages
    max_context_chars,  \* self.max_context_chars
    lock,               \* holder of self._lock
    nextId,             \* number of ids _generate_session_id has handed out
    pc,                 \* position of every task in its handler
    loc,                \* local variables of every task's handler
    running,            \* the task that holds the event loop
    collection          \* the vector service's collection: record id -> metadata

vars == <<sessions, keys, meta, current, max_messages,
          max_context_chars, lock, nextId, pc, loc, running, collection>>

-----------------------------------------------------------------------------
(* Bounds of the model *)

MaxGen == 2         \* ids _generate_session_id may hand out
RotateGen == 3      \* ids of the rotation specification
LifeMaxTurns == 1   \* turn budget of the lifecycle specifications
TrimMaxTurns == 3   \* largest turn budget of the trimmer specification

(* Program constants *)

Timeout == 60               \* session_timeout_minutes
DefaultMaxChars == 4000     \* max_context_chars

Procs == {"t1", "t2"}
NoProc == "nobody"
None == <<>>

GenId(n) == <<"session", n>>        \* the n-th id of _generate_session_id
ClientIds == {<<"client", 1>>}      \* ids a caller makes up itself
TickStep == Timeout                 \* minutes per clock tick

\* Time is kept as the idle time of every session, datetime.now() minus its
\* last_accessed: writing last_accessed = datetime.now() sets it to 0 and a
\* clock tick adds TickStep to all of them.  Nothing reads an idle time above
\* Timeout except to compare it with Timeout, so it is kept up to OverTime.
OverTime == 2 * Timeout

-----------------------------------------------------------------------------
(* Pure helpers *)

Range(s) == {s[i] : i \in 1..Len(s)}

RECURSIVE SumChars(_)
SumChars(msgs) ==
    IF msgs = <<>> THEN 0 ELSE Head(msgs).chars + SumChars(Tail(msgs))

RECURSIVE Without(_, _)
Without(s, x) ==
    IF s = <<>> THEN <<>>
    ELSE IF Head(s) = x THEN Without(Tail(s), x)
    ELSE <<Head(s)>> \o Without(Tail(s), x)

Digits(n) == IF n < 10 THEN 1 ELSE IF n < 100 THEN 2 ELSE 3

\* len("[Context trimmed: {n} older messages removed]")
MarkerChars(n) == 42 + Digits(n)

Marker(n) == [role |-> "system", chars |-> MarkerChars(n), marker |-> TRUE]

Turn(role, chars) == [role |-> role, chars |-> chars, marker |-> FALSE]

\* a variant of CountTrim that stops one turn early (>= read as >)
RECURSIVE CountTrimLate(_, _)
CountTrimLate(msgs, mm) ==
    IF Len(msgs) > mm + 1 THEN CountTrimLate(Tail(msgs), mm) ELSE msgs

\* a variant of CountTrim that pops the newest turn (pop() for pop(0))
RECURSIVE CountTrimNewest(_, _)
CountTrimNewest(msgs, mm) ==
    IF Len(msgs) > mm
    THEN CountTrimNewest(SubSeq(msgs, 1, Len(msgs) - 1), mm)
    ELSE msgs

\* while len(messages) > self.max_messages: messages.pop(0)
RECURSIVE CountTrim(_, _)
CountTrim(msgs, mm) ==
    IF Len(msgs) > mm THEN CountTrim(Tail(msgs), mm) ELSE msgs

\* a variant of WithMarker that appends the marker instead of prepending it
WithMarkerAtEnd(msgs, original_count) ==
    IF Len(msgs) < original_count
    THEN Append(msgs, Marker(original_count - Len(msgs)))
    ELSE msgs

\* if len(messages) < original_count: messages.insert(0, marker)
WithMarker(msgs, original_count) ==
    IF Len(msgs) < original_count
    THEN <<Marker(original_count - Len(msgs))>> \o msgs
    ELSE msgs

\* a variant of CharTrim that stops while two turns are left (> 1 read as > 2)
RECURSIVE CharTrimKeepsTwo(_, _, _)
CharTrimKeepsTwo(msgs, total, mc) ==
    IF total > mc /\ Len(msgs) > 2
    THEN IF Head(msgs).marker
         THEN CharTrimKeepsTwo(Tail(msgs), total, mc)
         ELSE CharTrimKeepsTwo(Tail(msgs), total - Head(msgs).chars, mc)
    ELSE msgs

\* while total_chars > max_context_chars and len(messages) > 1: pop(0);
\* a popped marker leaves total_chars as it was
RECURSIVE CharTrim(_, _, _)
CharTrim(msgs, total, mc) ==
    IF total > mc /\ Len(msgs) > 1
    THEN IF Head(msgs).marker
         THEN CharTrim(Tail(msgs), total, mc)
         ELSE CharTrim(Tail(msgs), total - Head(msgs).chars, mc)
    ELSE msgs

TrimContext(msgs, mm, mc) ==
    LET counted == WithMarker(CountTrim(msgs, mm), Len(msgs))
    IN  CharTrim(counted, SumChars(counted), mc)

\* datetime.now() - last_accessed > self._timeout; no metadata: expired
IsSessionExpired(m, sid) ==
    IF sid \notin DOMAIN m THEN TRUE ELSE m[sid].idle > Timeout

\* _summarize_session reaches the store call iff it finds a conversation pair:
\* a user turn with non-empty text
HasPairs(msgs) ==
    \E i \in 1..Len(msgs) : msgs[i].role = "user" /\ msgs[i].chars > 0

\* {"created_at": now, "last_accessed": now}; created_at and
\* self._last_activity are written and never read by the manager
NewMeta == [idle |-> 0]

\* a variant of Touch that leaves last_accessed as it was
TouchKeepsTime(m, sid) == m

\* self._session_metadata[sid]["last_accessed"] = datetime.now()
Touch(m, sid) == [m EXCEPT ![sid].idle = 0]

Put(f, k, v) == [x \in DOMAIN f \cup {k} |-> IF x = k THEN v ELSE f[x]]

Drop(f, k) == [x \in DOMAIN f \ {k} |-> f[x]]

-----------------------------------------------------------------------------
(* The shared state as one value, and the locals of a handler *)

World ==
    [sessions |-> sessions, keys |-> keys, meta |-> meta, current |-> current,
     nextId |-> nextId, lock |-> lock,
     max_messages |-> max_messages, max_context_chars |-> max_context_chars]

FreshLoc(op) ==
    [op |-> op,             \* the handler the task runs
     sid |-> None,          \* session_id / active_session
     role |-> "none",       \* role of the turn to append
     chars |-> 0,           \* len(message) of the turn to append
     expired |-> None,      \* expired_session / current / the sweep's session_id
     summed |-> <<>>,       \* messages of _summarize_session while it awaits
     todo |-> <<>>,         \* expired_sessions (keys) still to visit
     after |-> "none",      \* where the handler goes on after _summarize_session
     ret |-> None,          \* value returned by get_or_create_session / the handler
     error |-> "none",      \* exception that ended the handler
     infos |-> 0,           \* number of info records collected
     seen |-> 0,            \* history: ids handed out when force_summarize_current began
     log |-> <<>>]          \* history: summarizations ended and sessions removed

\* the result of a block: the shared state, the next position, the locals
Res(w, where, l) == [w |-> w, pc |-> where, l |-> l]

Logged(l, what, sid) == [l EXCEPT !.log = Append(@, <<what, sid>>)]

\* the locals that outlive the return of a handler: its result and its history
Returned(l) ==
    [FreshLoc(l.op) EXCEPT !.ret = l.ret, !.error = l.error, !.infos = l.infos,
                           !.expired = l.expired, !.seen = l.seen, !.log = l.log]

\* handlers that only read: their response is a function of the state they
\* ran in, the model does not keep it
ReadOnly == {"info", "list", "current"}

Return(w, l) ==
    IF l.op \in ReadOnly
    THEN Res(w, "idle", FreshLoc("none"))
    ELSE Res(w, "done", Returned(l))

-----------------------------------------------------------------------------
(* get_or_create_session *)

\* return of get_or_create_session with value v, to add_message or to the caller
GocReturn(w, l, v) ==
    IF l.op \in {"add", "chat"}
    THEN Res(w, "add_append", [l EXCEPT !.ret = v, !.sid = v])
    ELSE Return(w, [l EXCEPT !.ret = v])

\* a variant of GocCheck that hands out the current session it found expired
GocCheckReturnsExpired(t, w, l) ==
    IF w.current # None
    THEN IF IsSessionExpired(w.meta, w.current)
         THEN GocReturn(w, [l EXCEPT !.expired = w.current], w.current)
         ELSE GocReturn([w EXCEPT !.meta = Touch(@, w.current)], l, w.current)
    ELSE Res(w, "goc_create", l)

\* a variant of GocCheck that rotates the current session whatever its age
GocCheckRotatesAlways(t, w, l) ==
    IF w.current # None
    THEN Res([w EXCEPT !.current = None], "sum",
             [l EXCEPT !.expired = w.current, !.after = "goc_remove"])
    ELSE Res(w, "goc_create", l)

\* first lock block: return the active current session, or take the expired
\* one out of the pointer
GocCheck(t, w, l) ==
    IF w.current # None /\ ~IsSessionExpired(w.meta, w.current)
    THEN GocReturn([w EXCEPT !.meta = Touch(@, w.current)], l, w.current)
    ELSE IF w.current # None /\ IsSessionExpired(w.meta, w.current)
         THEN Res([w EXCEPT !.current = None], "sum",
                  [l EXCEPT !.expired = w.current, !.after = "goc_remove"])
         ELSE Res(w, "goc_create", l)

\* if current_pair["user"]: a text that is neither None nor ""
Truthy(text) == text # None /\ text[1] > 0

\* the loop of _summarize_session over messages: a user turn flushes the
\* pair before it and opens a new one, an assistant turn writes the assistant
\* half of the open pair, other turns are skipped; a text is the one-element
\* sequence of its length
RECURSIVE PairsFrom(_, _, _)
PairsFrom(msgs, current_pair, conversation_pairs) ==
    LET flushed == IF Truthy(current_pair.user)
                   THEN Append(conversation_pairs, current_pair)
                   ELSE conversation_pairs
    IN  IF msgs = <<>>
        THEN flushed
        ELSE IF Head(msgs).role = "user"
             THEN PairsFrom(Tail(msgs),
                            [user |-> <<Head(msgs).chars>>, assistant |-> None], flushed)
             ELSE IF Head(msgs).role = "assistant"
                  THEN PairsFrom(Tail(msgs),
                                 [current_pair EXCEPT !.assistant = <<Head(msgs).chars>>],
                                 conversation_pairs)
                  ELSE PairsFrom(Tail(msgs), current_pair, conversation_pairs)

ConversationPairs(msgs) == PairsFrom(msgs, [user |-> None, assistant |-> None], <<>>)

\* _summarize_session up to the store call: it returns at once when the
\* session is gone or holds no conversation pair, else it awaits add_text
SummarizeSession(t, w, l) ==
    IF l.expired \in DOMAIN w.sessions /\ HasPairs(w.sessions[l.expired])
    THEN Res(w, "store", [l EXCEPT !.summed = w.sessions[l.expired]])
    ELSE Res(w, l.after, Logged(l, "summarized", l.expired))

\* the add_text call ends and _summarize_session returns the summary
StoreSummary(t, w, l) ==
    Res(w, l.after, [Logged(l, "summarized", l.expired) EXCEPT !.summed = <<>>])

\* a variant of StoreFailed without the except clause: the exception ends
\* the handler
StoreFailedRaises(t, w, l) ==
    Return(w, [Logged(l, "failed", l.expired) EXCEPT !.error = "HTTPError"])

\* the add_text call raises: _store_summary_in_vector_db catches the
\* exception and prints it, and _summarize_session returns the summary
StoreFailed(t, w, l) ==
    Res(w, l.after, [Logged(Logged(l, "failed", l.expired), "summarized", l.expired)
                        EXCEPT !.summed = <<>>])

\* a variant of PopSession that leaves the metadata of the session behind
PopSessionKeepsMeta(w, sid) ==
    [w EXCEPT !.sessions = Drop(@, sid), !.keys = Without(@, sid)]

\* self._sessions.pop(sid, None); self._session_metadata.pop(sid, None)
PopSession(w, sid) ==
    [w EXCEPT !.sessions = Drop(@, sid), !.keys = Without(@, sid),
              !.meta = Drop(@, sid)]

\* the locals after a pop, with the removal in the history if it removed one
Popped(w, l, sid) ==
    IF sid \in DOMAIN w.sessions THEN Logged(l, "removed", sid) ELSE l

\* second lock block: remove the summarized session
GocRemove(t, w, l) ==
    Res(PopSession(w, l.expired), "goc_create", Popped(w, l, l.expired))

\* third lock block: create the new session and make it current
GocCreate(t, w, l) ==
    LET new_session_id == GenId(w.nextId + 1)
    IN  GocReturn([w EXCEPT !.sessions = Put(@, new_session_id, <<>>),
                            !.keys = Append(@, new_session_id),
                            !.meta = Put(@, new_session_id, NewMeta),
                            !.current = new_session_id,
                            !.nextId = @ + 1],
                  l, new_session_id)

-----------------------------------------------------------------------------
(* add_message and the chat handler *)

\* a variant of AddEnsure that does not create the session it does not find
AddEnsureFindsOnly(t, w, l) ==
    Res(IF l.sid \in DOMAIN w.sessions THEN [w EXCEPT !.meta = Touch(@, l.sid)] ELSE w,
        "add_append", l)

\* explicit id: create the session on first use, refresh last_accessed
AddEnsure(t, w, l) ==
    LET fresh == l.sid \notin DOMAIN w.sessions
        made == IF fresh
                THEN [w EXCEPT !.sessions = Put(@, l.sid, <<>>),
                               !.keys = Append(@, l.sid),
                               !.meta = Put(@, l.sid, NewMeta)]
                ELSE w
    IN  Res([made EXCEPT !.meta = Touch(@, l.sid)], "add_append", l)

\* append the turn, trim, refresh; self._sessions[active_session] raises
\* KeyError when the session is gone
AddAppend(t, w, l) ==
    IF l.sid \in DOMAIN w.sessions
    THEN LET done == [w EXCEPT !.sessions[l.sid] =
                                  TrimContext(Append(@, Turn(l.role, l.chars)),
                                              w.max_messages, w.max_context_chars),
                               !.meta = Touch(@, l.sid)]
         IN  IF l.op = "chat" /\ l.role = "user"
             THEN Res(done, "chat_search", [l EXCEPT !.ret = l.sid])
             ELSE Return(done, [l EXCEPT !.ret = l.sid])
    ELSE Return(w, [l EXCEPT !.error = "KeyError", !.ret = None])

\* a variant of GetMessages that makes the session it does not find
GetMessagesCreates(w, sid) ==
    IF sid \in DOMAIN w.meta THEN [w EXCEPT !.meta = Touch(@, sid)]
    ELSE [w EXCEPT !.sessions = Put(@, sid, <<>>), !.meta = Put(@, sid, NewMeta),
                   !.keys = Append(@, sid)]

\* get_session_messages: refresh last_accessed, return a copy of the turns
GetMessages(w, sid) ==
    IF sid \in DOMAIN w.meta THEN [w EXCEPT !.meta = Touch(@, sid)] ELSE w

\* the list get_session_messages returns: self._sessions.get(session_id, [])
SessionMessages(w, sid) == IF sid \in DOMAIN w.sessions THEN w.sessions[sid] ELSE <<>>

\* the value get_session_info returns
InfoOf(w, sid) ==
    IF sid \notin DOMAIN w.meta THEN None
    ELSE [session_id |-> sid, message_count |-> Len(SessionMessages(w, sid)),
          is_expired |-> IsSessionExpired(w.meta, sid), is_current |-> sid = w.current]

\* run_rag_with_scores: the short-term search reads the session (and refreshes
\* it), then the handler awaits the long-term search
ChatSearch(t, w, l) == Res(GetMessages(w, l.sid), "chat_rag", l)

-----------------------------------------------------------------------------
(* force_summarize_current and cleanup_all_expired *)

\* a variant of ForceTake that summarizes inside the `with self._lock:` block
ForceTakeHoldingLock(t, w, l) ==
    IF w.current # None
    THEN Res([w EXCEPT !.current = None, !.lock = t], "sum",
             [l EXCEPT !.expired = w.current, !.after = "force_remove"])
    ELSE Res([w EXCEPT !.current = None], "goc_check", l)

\* current = self._current_session_id; self._current_session_id = None
ForceTake(t, w, l) ==
    IF w.current # None
    THEN Res([w EXCEPT !.current = None], "sum",
             [l EXCEPT !.expired = w.current, !.after = "force_remove",
                       !.seen = w.nextId])
    ELSE Res([w EXCEPT !.current = None], "goc_check", [l EXCEPT !.seen = w.nextId])

ForceRemove(t, w, l) ==
    Res(PopSession(w, l.expired), "goc_check", Popped(w, l, l.expired))

\* a variant of ExpiredSessions that leaves out the expiry test
ExpiredSessionsAll(w) == w.keys

\* the expired ones of list(self._sessions.keys()), in key order
ExpiredSessions(w) == SelectSeq(w.keys, LAMBDA sid : IsSessionExpired(w.meta, sid))

\* a variant of SweepNext that removes the session without summarizing it
SweepNextUnsummarized(w, l, todo) ==
    IF todo = <<>>
    THEN Return(w, l)
    ELSE Res(w, "sweep_remove", [l EXCEPT !.todo = Tail(todo), !.expired = Head(todo),
                                          !.after = "sweep_remove"])

\* the next session of the for loop, or the end of the handler
SweepNext(w, l, todo) ==
    IF todo = <<>>
    THEN Return(w, l)
    ELSE Res(w, "sum", [l EXCEPT !.todo = Tail(todo), !.expired = Head(todo),
                                 !.after = "sweep_remove"])

SweepScan(t, w, l) == SweepNext(w, l, ExpiredSessions(w))

\* a variant of ClearPop that leaves the pointer as it is
ClearPopKeepsPointer(w, sid) == PopSession(w, sid)

\* pop the session; if it is the current one, clear the pointer
ClearPop(w, sid) ==
    [PopSession(w, sid) EXCEPT !.current = IF @ = sid THEN None ELSE @]

SweepRemove(t, w, l) ==
    SweepNext(ClearPop(w, l.expired), Popped(w, l, l.expired), l.todo)

-----------------------------------------------------------------------------
(* get_session_info and get_all_sessions *)

\* get_all_sessions takes the lock and walks self._sessions.keys(), calling
\* get_session_info for each key while it holds the lock
GasLock(t, w, l) ==
    IF w.keys = <<>>
    THEN Return(w, l)
    ELSE Res([w EXCEPT !.lock = t], "gas_info",
             [l EXCEPT !.sid = Head(w.keys), !.todo = Tail(w.keys)])

\* get_session_info, once it has the lock: the info record of the session,
\* if it has metadata; then the next key of get_all_sessions, or the return
SessionInfo(t, w, l) ==
    LET n == IF l.sid \in DOMAIN w.meta THEN l.infos + 1 ELSE l.infos
    IN  IF l.op = "list" /\ l.todo # <<>>
        THEN Res(w, "gas_info", [l EXCEPT !.infos = n, !.sid = Head(l.todo),
                                          !.todo = Tail(l.todo)])
        ELSE Return([w EXCEPT !.lock = NoProc], [l EXCEPT !.infos = n])

-----------------------------------------------------------------------------
(* run_rag_with_scores (Backend/app/services/rag_pipeline.py): the fusion of *)
(* the short-term and the long-term search.  A text is a sequence of letters, *)
(* a distance is a number of hundredths.                                      *)

ExactScore == 100       \* similarity_score of a short-term match

Min(a, b) == IF a <= b THEN a ELSE b
Max(a, b) == IF a >= b THEN a ELSE b

\* str.lower()
Lower(text) == [i \in 1..Len(text) |-> IF text[i] = "A" THEN "a" ELSE text[i]]

\* `query in text` of two strings
Contains(query, text) ==
    \E i \in 0..(Len(text) - Len(query)) : SubSeq(text, i + 1, i + Len(query)) = query

\* s[:k]
Slice(s, k) ==
    IF k >= 0 THEN SubSeq(s, 1, Min(k, Len(s))) ELSE SubSeq(s, 1, Max(Len(s) + k, 0))

\* the snippet of the i-th turn of the history; the turn's timestamp is its
\* position in the history
ShortTermSnippet(history, i) ==
    [id |-> <<"stm", i>>, document |-> history[i].text,
     source |-> "short_term_memory", distance |-> 0, similarity_score |-> ExactScore]

RECURSIVE Matches(_, _, _)
Matches(history, query_lower, i) ==
    IF i > Len(history) THEN <<>>
    ELSE (IF Contains(query_lower, Lower(history[i].text))
          THEN <<ShortTermSnippet(history, i)>> ELSE <<>>)
         \o Matches(history, query_lower, i + 1)

\* _search_short_term_memory, on the history get_session_history returned
SearchShortTermMemory(history, query, top_k) ==
    IF history = <<>> THEN <<>> ELSE Slice(Matches(history, Lower(query), 1), top_k)

\* the similarity the vector service derives from a distance: 100 * (1 - d),
\* clamped to [0, 100]
Similarity(distance) == Max(0, Min(100, 100 - distance))

\* one result of the vector service's semantic search
SemanticItem(n, distance) ==
    [id |-> <<"ltm", n>>, text |-> <<"b">>, source |-> "vector_db",
     distance |-> distance, similarity_score |-> Similarity(distance)]

\* _extract_semantic_results; `dict` is isinstance(semantic_response, dict)
ExtractSemanticResults(semantic_response, top_k) ==
    IF ~semantic_response.dict THEN <<>>
    ELSE LET results == Slice(semantic_response.results, top_k)
         IN  [i \in 1..Len(results) |->
                [id |-> results[i].id, document |-> results[i].text,
                 source |-> results[i].source, distance |-> results[i].distance,
                 similarity_score |-> results[i].similarity_score]]

\* a variant of InsertByScore that puts x behind the snippets of its own
\* score too, as an unstable sort may
InsertByScoreBehindEquals(x, sorted) ==
    LET k == Cardinality({i \in 1..Len(sorted) :
                            sorted[i].similarity_score >= x.similarity_score})
    IN  SubSeq(sorted, 1, k) \o <<x>> \o SubSeq(sorted, k + 1, Len(sorted))

\* x goes behind the snippets of a higher score and before the others
InsertByScore(x, sorted) ==
    LET k == Cardinality({i \in 1..Len(sorted) :
                            sorted[i].similarity_score > x.similarity_score})
    IN  SubSeq(sorted, 1, k) \o <<x>> \o SubSeq(sorted, k + 1, Len(sorted))

\* a variant of SortByScore without reverse=True: ascending and stable
RECURSIVE SortByScoreAscending(_)
SortByScoreAscending(all_results) ==
    IF all_results = <<>> THEN <<>>
    ELSE LET x == Head(all_results)
             sorted == SortByScoreAscending(Tail(all_results))
             k == Cardinality({i \in 1..Len(sorted) :
                                 sorted[i].similarity_score < x.similarity_score})
         IN  SubSeq(sorted, 1, k) \o <<x>> \o SubSeq(sorted, k + 1, Len(sorted))

\* all_results.sort(key=similarity_score, reverse=True): descending and stable
RECURSIVE SortByScore(_)
SortByScore(all_results) ==
    IF all_results = <<>> THEN <<>>
    ELSE InsertByScore(Head(all_results), SortByScore(Tail(all_results)))

CountSource(top_docs, short) ==
    Cardinality({i \in 1..Len(top_docs) : (top_docs[i].source = "short_term_memory") = short})

\* the locals of run_rag_with_scores(message, session_id, top_k)
RagLoc(message, session_id, top_k) ==
    [message |-> message, top_k |-> top_k, stm_results |-> <<>>,
     raw_results |-> [dict |-> FALSE, results |-> <<>>], long_term_results |-> <<>>, all_results |-> <<>>,
     top_docs |-> <<>>]
    @@ [FreshLoc("rag") EXCEPT !.sid = session_id]

\* lines 181-186: the short-term search, which reads the session with
\* get_session_history and so refreshes its last_accessed
RagShortTerm(t, w, l) ==
    IF l.sid = None
    THEN Res(w, "rag_search", l)
    ELSE LET history == IF l.sid \in DOMAIN w.sessions THEN w.sessions[l.sid] ELSE <<>>
             stm == SearchShortTermMemory(history, l.message, l.top_k)
         IN  Res(GetMessages(w, l.sid), "rag_search",
                 [l EXCEPT !.stm_results = stm, !.all_results = stm])

\* lines 190-200: the long-term results are appended, the list is sorted and
\* cut; _compose_answer awaits the generation unless nothing was retrieved
RagFuse(t, w, l) ==
    LET ltm == ExtractSemanticResults(l.raw_results, l.top_k)
        all == SortByScore(l.all_results \o ltm)
        top == Slice(all, l.top_k)
    IN  Res(w, IF top = <<>> THEN "rag_return" ELSE "rag_compose",
            [l EXCEPT !.long_term_results = ltm, !.all_results = all,
                      !.top_docs = top])

\* lines 202-214: the response
RagReturn(t, w, l) ==
    Res(w, "done",
        [l EXCEPT !.ret = [results |-> l.top_docs,
                           short_term |-> CountSource(l.top_docs, TRUE),
                           long_term |-> CountSource(l.top_docs, FALSE)]])

\* semantic_search raised (timeout, connection failure, error status):
\* nothing in run_rag_with_scores catches it
RagSearchFailed(t, w, l) ==
    Res(w, "done", [l EXCEPT !.error = "HTTPError"])

-----------------------------------------------------------------------------
(* Scheduling *)

\* positions at which the next thing a task does is `with self._lock:`
LockBlocks ==
    {"goc_check", "goc_remove", "goc_create", "add_ensure", "add_append",
     "chat_search", "force_take", "force_remove", "sweep_scan", "sweep_remove",
     "gas_lock", "info", "gas_info", "rag_short"}

\* threading.Lock is not reentrant: acquire blocks while anyone holds it,
\* the caller included
Blocked(w, where) == where \in LockBlocks /\ w.lock # NoProc

\* positions at which a task stops: it awaits I/O or its handler has returned
Stops == {"store", "chat_rag", "rag_search", "rag_compose", "done", "idle"}

Block(t, w, where, l) ==
    CASE where = "goc_check" -> GocCheck(t, w, l)
      [] where = "sum" -> SummarizeSession(t, w, l)
      [] where = "goc_remove" -> GocRemove(t, w, l)
      [] where = "goc_create" -> GocCreate(t, w, l)
      [] where = "add_ensure" -> AddEnsure(t, w, l)
      [] where = "add_append" -> AddAppend(t, w, l)
      [] where = "chat_search" -> ChatSearch(t, w, l)
      [] where = "force_take" -> ForceTake(t, w, l)
      [] where = "force_remove" -> ForceRemove(t, w, l)
      [] where = "sweep_scan" -> SweepScan(t, w, l)
      [] where = "sweep_remove" -> SweepRemove(t, w, l)
      [] where = "gas_lock" -> GasLock(t, w, l)
      [] where \in {"info", "gas_info"} -> SessionInfo(t, w, l)
      [] where = "rag_short" -> RagShortTerm(t, w, l)
      [] where = "rag_fuse" -> RagFuse(t, w, l)
      [] where = "rag_return" -> RagReturn(t, w, l)

\* a coroutine runs until it awaits, returns or blocks
RECURSIVE Run(_, _, _, _)
Run(t, w, where, l) ==
    IF where \in Stops \/ Blocked(w, where)
    THEN Res(w, where, l)
    ELSE LET r == Block(t, w, where, l) IN Run(t, r.w, r.pc, r.l)

\* the event loop runs one coroutine at a time
CanRun(t) == running \in {NoProc, t}

\* the state after task t ran to r: a task that awaits gives the event loop
\* away; one that returns hands its result over before any other task runs;
\* one that blocks on the lock blocks the loop's thread
Apply(t, r) ==
    /\ sessions' = r.w.sessions
    /\ keys' = r.w.keys
    /\ meta' = r.w.meta
    /\ current' = r.w.current
    /\ nextId' = r.w.nextId
    /\ lock' = r.w.lock
    /\ max_messages' = r.w.max_messages
    /\ max_context_chars' = r.w.max_context_chars
    /\ pc' = [pc EXCEPT ![t] = r.pc]
    /\ loc' = [loc EXCEPT ![t] = r.l]
    /\ running' = IF r.pc \in Stops \ {"done"} THEN NoProc ELSE t
    /\ collection' = collection

\* a handler is called
Called(t) == pc[t] = "idle" /\ CanRun(t)

\* tasks inside a handler that may still call _generate_session_id
Creating == {q \in Procs : pc[q] = "store"
                           /\ loc[q].op \in {"goc", "add", "chat", "force"}}

\* a specification starts a handler that may create a session only while one
\* of its gen ids is left
IdLeft(gen) == nextId + Cardinality(Creating) < gen

\* the response is delivered and the handler's locals are gone
Finish(t) ==
    /\ pc[t] = "done"
    /\ Apply(t, Res(World, "idle", FreshLoc("none")))

-----------------------------------------------------------------------------
(* The handlers *)

StartGetOrCreate(t) ==
    /\ Called(t)
    /\ Apply(t, Run(t, World, "goc_check", FreshLoc("goc")))

\* the await of the summary store ends and the handler goes on
StoreDone(t) ==
    /\ pc[t] = "store"
    /\ CanRun(t)
    /\ LET r == StoreSummary(t, World, loc[t]) IN Apply(t, Run(t, r.w, r.pc, r.l))

\* the await of the summary store ends with an exception
StoreFails(t) ==
    /\ pc[t] = "store"
    /\ CanRun(t)
    /\ LET r == StoreFailed(t, World, loc[t]) IN Apply(t, Run(t, r.w, r.pc, r.l))

AddLoc(op, role, chars, sid) ==
    [FreshLoc(op) EXCEPT !.role = role, !.chars = chars, !.sid = sid]

\* add_message(role, message, session_id=sid); sid = None is the auto-managed mode
AddMessage(t, l) ==
    Apply(t, Run(t, World, IF l.sid # None THEN "add_ensure" ELSE "goc_check", l))

StartAddMessage(t, role, chars, sid) ==
    /\ Called(t)
    /\ AddMessage(t, AddLoc("add", role, chars, sid))

\* POST /chat: add_message("user", req.message, session_id=req.session_id)
StartChat(t, chars, sid) ==
    /\ Called(t)
    /\ AddMessage(t, AddLoc("chat", "user", chars, sid))

\* the long-term search raised: the handler ends with that exception
ChatFails(t) ==
    /\ pc[t] = "chat_rag"
    /\ CanRun(t)
    /\ Apply(t, Return(World, [loc[t] EXCEPT !.error = "HTTPError"]))

\* the retrieval and the generation end: the handler stores the answer with
\* add_message("assistant", answer, session_id=active_session_id)
ChatAnswer(t, chars) ==
    /\ pc[t] = "chat_rag"
    /\ CanRun(t)
    /\ AddMessage(t, [loc[t] EXCEPT !.role = "assistant", !.chars = chars])

\* run_rag_with_scores(message, session_id, top_k) is called
StartRag(t, message, session_id, top_k) ==
    /\ Called(t)
    /\ Apply(t, Run(t, World, "rag_short", RagLoc(message, session_id, top_k)))

\* the await of semantic_search ends with the service's response
SearchDone(t, raw_results) ==
    /\ pc[t] = "rag_search"
    /\ CanRun(t)
    /\ Apply(t, Run(t, World, "rag_fuse", [loc[t] EXCEPT !.raw_results = raw_results]))

\* the await of semantic_search ends with an exception
SearchFails(t) ==
    /\ pc[t] = "rag_search"
    /\ CanRun(t)
    /\ LET r == RagSearchFailed(t, World, loc[t]) IN Apply(t, Run(t, r.w, r.pc, r.l))

\* the await of _compose_answer ends: it returns an answer whatever happened
ComposeDone(t) ==
    /\ pc[t] = "rag_compose"
    /\ CanRun(t)
    /\ Apply(t, Run(t, World, "rag_return", loc[t]))

StartForce(t) ==
    /\ Called(t)
    /\ Apply(t, Run(t, World, "force_take", FreshLoc("force")))

StartCleanup(t) ==
    /\ Called(t)
    /\ Apply(t, Run(t, World, "sweep_scan", FreshLoc("sweep")))

StartGetAllSessions(t) ==
    /\ Called(t)
    /\ Apply(t, Run(t, World, "gas_lock", FreshLoc("list")))

GetSessionInfo(t, sid) ==
    /\ Called(t)
    /\ Apply(t, Run(t, World, "info", [FreshLoc("info") EXCEPT !.sid = sid]))

\* get_current_session: the pointer, if it is set and not expired
GetCurrentSession(t) ==
    /\ Called(t)
    /\ Apply(t, Return(World,
                    [FreshLoc("current") EXCEPT !.ret =
                        IF current # None /\ ~IsSessionExpired(meta, current)
                        THEN current ELSE None]))

ClearSession(t, sid) ==
    /\ Called(t)
    /\ Apply(t, Res(ClearPop(World, sid), "idle", FreshLoc("none")))

GetSessionMessages(t, sid) ==
    /\ Called(t)
    /\ Apply(t, Res(GetMessages(World, sid), "idle", FreshLoc("none")))

\* set_context_limits(max_messages, max_chars); setm / setc: the argument is
\* not None; then every session is trimmed
ContextLimits(w, setm, mm, setc, mc) ==
    LET m == IF setm THEN mm ELSE w.max_messages
        c == IF setc THEN mc ELSE w.max_context_chars
    IN  [w EXCEPT !.max_messages = m, !.max_context_chars = c,
                  !.sessions = [sid \in DOMAIN @ |-> TrimContext(@[sid], m, c)]]

SetContextLimits(t, setm, mm, setc, mc) ==
    /\ Called(t)
    /\ Apply(t, Res(ContextLimits(World, setm, mm, setc, mc), "idle", FreshLoc("none")))

-----------------------------------------------------------------------------
(* The vector service (VECTOR_STORAGE_SERVICE/app): add_text stores a record *)
(* and update_metadata_in_chroma enriches its metadata in the background.    *)
(* A metadata dict is a function from its keys; a confidence is a number of  *)
(* tenths.                                                                    *)

\* m.get(k, default)
Get(m, k, default) == IF k \in DOMAIN m THEN m[k] ELSE default

\* m[k] = v
Set(m, k, v) == [x \in DOMAIN m \cup {k} |-> IF x = k THEN v ELSE m[x]]

ALLOWED_DOMAINS == {"movies", "sports", "tech", "general"}
ALLOWED_ENTITY_TYPES ==
    {"fictional_character", "real_person", "organization", "concept", "unknown"}
ALLOWED_SOURCES == {"user", "wiki", "pdf", "web", "memory"}

FALLBACK_METADATA ==
    [domain |-> "general", entity_type |-> "unknown", entity_name |-> "unknown",
     source |-> "memory", confidence |-> 0]

\* the JSON values float() converts, with their value in tenths; float() of
\* any other value raises
Floats == [t \in {"0.0", "0.4", "0.9", "1.0", "1.5", "-0.4"} |->
             CASE t = "0.0" -> 0 [] t = "0.4" -> 4 [] t = "0.9" -> 9
               [] t = "1.0" -> 10 [] t = "1.5" -> 15 [] t = "-0.4" -> 0 - 4]

\* a variant of ValidateMetadata that takes the fields of an answer whose
\* confidence is no number in [0,1] and sets its confidence to 0
ValidateMetadataKeepsFields(raw) ==
    IF Get(raw, "domain", "missing") \notin ALLOWED_DOMAINS THEN FALLBACK_METADATA
    ELSE IF Get(raw, "entity_type", "missing") \notin ALLOWED_ENTITY_TYPES
    THEN FALLBACK_METADATA
    ELSE IF Get(raw, "source", "missing") \notin ALLOWED_SOURCES THEN FALLBACK_METADATA
    ELSE LET token == Get(raw, "confidence", "0.0")
             valid == token \in DOMAIN Floats /\ 0 <= Floats[token] /\ Floats[token] <= 10
         IN  Set(Set(raw, "entity_name",
                     IF Get(raw, "entity_name", "") = "" THEN "unknown"
                     ELSE raw.entity_name),
                 "confidence", IF valid THEN Floats[token] ELSE 0)

\* validate_metadata; "missing" is the None of a key the dict does not have,
\* the confidence of the answer is a JSON value
ValidateMetadata(raw) ==
    IF Get(raw, "domain", "missing") \notin ALLOWED_DOMAINS THEN FALLBACK_METADATA
    ELSE IF Get(raw, "entity_type", "missing") \notin ALLOWED_ENTITY_TYPES
    THEN FALLBACK_METADATA
    ELSE IF Get(raw, "source", "missing") \notin ALLOWED_SOURCES THEN FALLBACK_METADATA
    ELSE LET token == Get(raw, "confidence", "0.0")
         IN  IF token \notin DOMAIN Floats THEN FALLBACK_METADATA
             ELSE IF ~(0 <= Floats[token] /\ Floats[token] <= 10) THEN FALLBACK_METADATA
             ELSE Set(Set(raw, "entity_name",
                          IF Get(raw, "entity_name", "") = "" THEN "unknown"
                          ELSE raw.entity_name),
                      "confidence", Floats[token])

\* a variant of MergeMetadata that returns the new metadata alone
MergeMetadataNewOnly(old, new) ==
    IF Get(new, "confidence", 0) >= Get(old, "confidence", 0) THEN new ELSE old

\* a variant of MergeMetadata without the comparison of the confidences
MergeMetadataAlways(old, new) ==
    [k \in DOMAIN old \cup DOMAIN new |-> IF k \in DOMAIN new THEN new[k] ELSE old[k]]

\* merge_metadata: {**old, **new} when the new confidence is not lower
MergeMetadata(old, new) ==
    IF Get(new, "confidence", 0) >= Get(old, "confidence", 0)
    THEN [k \in DOMAIN old \cup DOMAIN new |-> IF k \in DOMAIN new THEN new[k] ELSE old[k]]
    ELSE old

\* store_vector and update_metadata: the confidence always exists
WithConfidence(metadata) == Set(metadata, "confidence", Get(metadata, "confidence", 0))

\* clean_user_text: " ".join(raw_text.split())
CleanUserText(raw_text) ==
    LET keep(i) == \/ raw_text[i] # " "
                   \/ /\ i > 1 /\ raw_text[i - 1] # " "
                      /\ \E j \in (i + 1)..Len(raw_text) : raw_text[j] # " "
    IN  SelectSeq([i \in 1..Len(raw_text) |-> <<raw_text[i], keep(i)>>],
                  LAMBDA c : c[2])

\* the id store_vector gives a record (a uuid4)
DocId(n) == <<"doc", n>>

EnrichLoc(text) ==
    [text |-> text, doc_id |-> None, parsed |-> <<>>, old_meta |-> <<>>,
     metadata |-> <<>>, merged |-> <<>>]
    @@ FreshLoc("add_text")

\* POST /add_text: the record is stored with its initial metadata and the
\* enrichment is scheduled; a text that is empty after cleaning is refused
StartAddText(t, text, metadata) ==
    /\ Called(t)
    /\ LET clean_text == [i \in 1..Len(CleanUserText(text)) |-> CleanUserText(text)[i][1]]
           initial == Set(Set(metadata, "text", text), "status", "pending")
           doc_id == DocId(Cardinality(DOMAIN collection) + 1)
       IN  IF clean_text = <<>>
           THEN /\ collection' = collection
                /\ pc' = [pc EXCEPT ![t] = "done"]
                /\ loc' = [loc EXCEPT ![t] = [EnrichLoc(text) EXCEPT !.error = "HTTP400"]]
                /\ running' = t
           ELSE /\ collection' = Put(collection, doc_id, WithConfidence(initial))
                /\ pc' = [pc EXCEPT ![t] = "generate"]
                /\ loc' = [loc EXCEPT ![t] = [EnrichLoc(clean_text) EXCEPT !.doc_id = doc_id]]
                /\ running' = NoProc
    /\ UNCHANGED <<sessions, keys, meta, current, max_messages, max_context_chars,
                   lock, nextId>>

\* POST /add_vector: the request model has no metadata field, so the record
\* gets the default metadata; a request without a vector is refused
StartAddVector(t, vector) ==
    /\ Called(t)
    /\ LET metadata == [source |-> "external_vector", timestamp |-> "now"]
           doc_id == DocId(Cardinality(DOMAIN collection) + 1)
       IN  IF vector = <<>>
           THEN /\ collection' = collection
                /\ loc' = [loc EXCEPT ![t] =
                             [FreshLoc("add_vector") EXCEPT !.error = "HTTP500"]]
           ELSE /\ collection' = Put(collection, doc_id, WithConfidence(metadata))
                /\ loc' = [loc EXCEPT ![t] = [FreshLoc("add_vector") EXCEPT !.ret = doc_id]]
    /\ pc' = [pc EXCEPT ![t] = "done"]
    /\ running' = t
    /\ UNCHANGED <<sessions, keys, meta, current, max_messages, max_context_chars,
                   lock, nextId>>

MinConfidence == 6      \* min_confidence of VectorStore.search, in tenths
MaxDistance == 50       \* max_distance of VectorStore.search, in hundredths

\* VectorStore.search: the ids of the top_k nearest records that pass the
\* `where` filter, without those farther than max_distance; distance[d] is
\* the distance of record d from the query vector, equal distances are taken
\* in the order of insertion
Search(coll, distance, top_k, domain, entity_type) ==
    LET passes(d) ==
            /\ coll[d].confidence >= MinConfidence
            /\ domain # "" => Get(coll[d], "domain", "missing") = domain
            /\ entity_type # "" => Get(coll[d], "entity_type", "missing") = entity_type
        candidates == {d \in DOMAIN coll : passes(d)}
        nearer(e, d) == \/ distance[e] < distance[d]
                        \/ distance[e] = distance[d] /\ e[2] < d[2]
        nearest == {d \in candidates :
                      Cardinality({e \in candidates : nearer(e, d)}) < top_k}
    IN  {d \in nearest : distance[d] <= MaxDistance}

\* self.collection.query(query_embeddings, n_results=top_k, where=where): the
\* top_k nearest records that pass the `where` filter, nearest first
IndexQuery(coll, distance, top_k, domain, entity_type) ==
    LET passes(d) ==
            /\ coll[d].confidence >= MinConfidence
            /\ domain # "" => Get(coll[d], "domain", "missing") = domain
            /\ entity_type # "" => Get(coll[d], "entity_type", "missing") = entity_type
        candidates == {d \in DOMAIN coll : passes(d)}
        nearer(e, d) == \/ distance[e] < distance[d]
                        \/ distance[e] = distance[d] /\ e[2] < d[2]
        rank(d) == Cardinality({e \in candidates : nearer(e, d)}) + 1
        n == Min(top_k, Cardinality(candidates))
    IN  [i \in 1..n |-> CHOOSE d \in candidates : rank(d) = i]

\* a variant of SearchRanked without the post-filter by distance
SearchRankedAnyDistance(coll, distance, top_k, domain, entity_type) ==
    IndexQuery(coll, distance, top_k, domain, entity_type)

\* VectorStore.search with the order of its lists: the results of the index
\* query, in their order, without those farther than max_distance
SearchRanked(coll, distance, top_k, domain, entity_type) ==
    SelectSeq(IndexQuery(coll, distance, top_k, domain, entity_type),
              LAMBDA d : distance[d] <= MaxDistance)

QueryLoc(op, distance, top_k) ==
    [distance |-> distance, top_k |-> top_k, results |-> {}, ranked |-> <<>>]
        @@ FreshLoc(op)

\* POST /query_vector: search(query_vector=req.vector, top_k=req.top_k or 5)
QueryVector(t, distance, top_k) ==
    /\ Called(t)
    /\ loc' = [loc EXCEPT ![t] =
                 [QueryLoc("query_vector", distance, top_k) EXCEPT
                    !.results = Search(collection, distance, top_k, "", ""),
                    !.ranked = SearchRanked(collection, distance, top_k, "", "")]]
    /\ pc' = [pc EXCEPT ![t] = "done"]
    /\ running' = t
    /\ UNCHANGED <<sessions, keys, meta, current, max_messages, max_context_chars,
                   lock, nextId, collection>>

\* POST /query_text: search(query_vec, top_k, domain="general", entity_type=None)
QueryText(t, distance, top_k) ==
    /\ Called(t)
    /\ loc' = [loc EXCEPT ![t] =
                 [QueryLoc("query_text", distance, top_k) EXCEPT
                    !.results = Search(collection, distance, top_k, "general", ""),
                    !.ranked = SearchRanked(collection, distance, top_k, "general", "")]]
    /\ pc' = [pc EXCEPT ![t] = "done"]
    /\ running' = t
    /\ UNCHANGED <<sessions, keys, meta, current, max_messages, max_context_chars,
                   lock, nextId, collection>>

\* update_metadata_in_chroma after generate_metadata returned `generated`,
\* made of the answer `parsed` of the model: the stored metadata is merged
\* with it and written back as completed
UpdateMetadata(t, parsed, generated) ==
    /\ pc[t] = "generate"
    /\ CanRun(t)
    /\ LET doc_id == loc[t].doc_id
           old_meta == collection[doc_id]
           merged == MergeMetadata(old_meta, generated)
       IN  IF doc_id \notin DOMAIN collection
           THEN /\ collection' = collection
                /\ loc' = loc
           ELSE /\ collection' = [collection EXCEPT ![doc_id] =
                                    WithConfidence(Set(merged, "status", "completed"))]
                /\ loc' = [loc EXCEPT ![t].parsed = parsed,
                                      ![t].old_meta = old_meta,
                                      ![t].metadata = generated,
                                      ![t].merged = merged]
    /\ pc' = [pc EXCEPT ![t] = "done"]
    /\ running' = t
    /\ UNCHANGED <<sessions, keys, meta, current, max_messages, max_context_chars,
                   lock, nextId>>

\* generate_metadata returned the validated answer of the model
GenerateDone(t, raw) == UpdateMetadata(t, raw, ValidateMetadata(raw))

\* generate_metadata failed (no answer, no JSON, an HTTP error): the fallback
GenerateFails(t) == UpdateMetadata(t, <<>>, FALLBACK_METADATA)

\* the clock advances
Tick ==
    /\ running = NoProc
    /\ meta' = [sid \in DOMAIN meta |->
                  [idle |-> IF meta[sid].idle + TickStep > OverTime
                            THEN OverTime ELSE meta[sid].idle + TickStep]]
    /\ meta' # meta
    /\ UNCHANGED <<sessions, keys, current, nextId, lock, max_messages,
                   max_context_chars, pc, loc, running, collection>>

-----------------------------------------------------------------------------
(* The lifecycle specification *)

LifeRoles == {"user"}
LifeChars == {10}

Init ==
    /\ sessions = <<>>
    /\ keys = <<>>
    /\ meta = <<>>
    /\ current = None
    /\ lock = NoProc
    /\ nextId = 0
    /\ pc = [t \in Procs |-> "idle"]
    /\ loc = [t \in Procs |-> FreshLoc("none")]
    /\ running = NoProc
    /\ max_messages = LifeMaxTurns
    /\ max_context_chars = DefaultMaxChars
    /\ collection = <<>>

\* ids a caller may pass as session_id: its own, or one a response gave it
KnownIds == ClientIds \cup {GenId(n) : n \in 1..nextId}

Next ==
    \/ Tick
    \/ \E t \in Procs :
        \/ IdLeft(MaxGen) /\ StartGetOrCreate(t)
        \/ IdLeft(MaxGen) /\ StartForce(t)
        \/ \E role \in LifeRoles, chars \in LifeChars, sid \in ClientIds \cup {None} :
              (sid = None => IdLeft(MaxGen)) /\ StartAddMessage(t, role, chars, sid)
        \/ \E chars \in LifeChars, sid \in ClientIds \cup {None} :
              (sid = None => IdLeft(MaxGen)) /\ StartChat(t, chars, sid)
        \/ StoreDone(t)
        \/ StoreFails(t)
        \/ ChatFails(t)
        \/ \E chars \in LifeChars : ChatAnswer(t, chars)
        \/ StartCleanup(t)
        \/ \E sid \in KnownIds : ClearSession(t, sid)
        \/ \E sid \in KnownIds : GetSessionMessages(t, sid)
        \/ GetCurrentSession(t)
        \/ \E sid \in KnownIds : GetSessionInfo(t, sid)
        \/ StartGetAllSessions(t)
        \/ Finish(t)

Spec == Init /\ [][Next]_vars

-----------------------------------------------------------------------------
(* The rotation specification: the handlers that rotate the current session, *)
(* with one more id                                                           *)

NextRotate ==
    \/ Tick
    \/ \E t \in Procs :
        \/ IdLeft(RotateGen) /\ StartGetOrCreate(t)
        \/ IdLeft(RotateGen) /\ StartForce(t)
        \/ \E role \in LifeRoles, chars \in LifeChars :
              IdLeft(RotateGen) /\ StartAddMessage(t, role, chars, None)
        \/ \E role \in LifeRoles, chars \in LifeChars, sid \in KnownIds :
              StartAddMessage(t, role, chars, sid)
        \/ StoreDone(t)
        \/ StoreFails(t)
        \/ Finish(t)

RotateSpec == Init /\ [][NextRotate]_vars

-----------------------------------------------------------------------------
(* The trimmer specification: turns of several lengths appended to one       *)
(* session under every pair of budgets, and budget changes                    *)

TrimRoles == {"user", "assistant"}
TrimChars == {10, 30, 60}
TrimBudgets == {0, 50, 100, DefaultMaxChars}

InitTrim ==
    /\ sessions = <<>>
    /\ keys = <<>>
    /\ meta = <<>>
    /\ current = None
    /\ lock = NoProc
    /\ nextId = 0
    /\ pc = [t \in Procs |-> "idle"]
    /\ loc = [t \in Procs |-> FreshLoc("none")]
    /\ running = NoProc
    /\ max_messages \in 0..TrimMaxTurns
    /\ max_context_chars \in TrimBudgets
    /\ collection = <<>>

NextTrim ==
    \E t \in Procs :
        \/ \E role \in TrimRoles, chars \in TrimChars, sid \in ClientIds :
              StartAddMessage(t, role, chars, sid)
        \/ \E setm, setc \in BOOLEAN, mm \in 0..TrimMaxTurns, mc \in TrimBudgets :
              SetContextLimits(t, setm, mm, setc, mc)
        \/ Finish(t)

TrimSpec == InitTrim /\ [][NextTrim]_vars

-----------------------------------------------------------------------------
(* The retrieval specification: run_rag_with_scores on a session of a few    *)
(* turns, with every response of the long-term search                        *)

FuseTopK == 2           \* largest top_k
FuseMaxTurns == 2       \* turns of the session
FuseMaxHits == 2        \* results of the long-term search

FuseTexts == {<<"A", "b">>, <<"b">>}
FuseQueries == {<<"a">>, <<"b">>}
FuseDistances == {0, 30, 120}
FuseProcs == {"t1"}

\* a turn with its text
Said(role, text) == Turn(role, Len(text)) @@ [text |-> text]

SeqsUpTo(S, n) == UNION {[1..k -> S] : k \in 0..n}

\* the responses of the semantic search: the results in any order, or a
\* body that is not an object
FuseResponses ==
    {[dict |-> FALSE, results |-> <<>>]} \cup
    {[dict |-> TRUE, results |-> [i \in 1..Len(ds) |-> SemanticItem(i, ds[i])]] :
        ds \in SeqsUpTo(FuseDistances, FuseMaxHits)}

InitFuse ==
    /\ \E texts \in SeqsUpTo(FuseTexts, FuseMaxTurns) :
          sessions = [sid \in ClientIds |->
                        [i \in 1..Len(texts) |-> Said("user", texts[i])]]
    /\ \E sid \in ClientIds : keys = <<sid>>
    /\ meta = [sid \in ClientIds |-> NewMeta]
    /\ current = None
    /\ lock = NoProc
    /\ nextId = 0
    /\ pc = [t \in Procs |-> "idle"]
    /\ loc = [t \in Procs |-> FreshLoc("none")]
    /\ running = NoProc
    /\ max_messages = FuseMaxTurns
    /\ max_context_chars = DefaultMaxChars
    /\ collection = <<>>

NextFuse ==
    \E t \in FuseProcs :
        \/ \E message \in FuseQueries, sid \in ClientIds \cup {None, GenId(1)},
              top_k \in 1..FuseTopK : StartRag(t, message, sid, top_k)
        \/ \E raw_results \in FuseResponses : SearchDone(t, raw_results)
        \/ SearchFails(t)
        \/ ComposeDone(t)
        \/ Finish(t)

FuseSpec == InitFuse /\ [][NextFuse]_vars

-----------------------------------------------------------------------------
(* The enrichment specification: records added by /add_text and enriched by  *)
(* update_metadata_in_chroma                                                  *)

MaxDocs == 2            \* records of the collection

EnrichTexts == {<<" ">>, <<"b">>}

\* vectors a caller sends: none, or one of the expected dimension
EnrichVectors == {<<>>, <<1>>}

\* distances of a record from a query vector
QueryDistances == {0, 30, 70}

\* metadata a caller sends with a text
CallerMetas ==
    {<<>>, [source |-> "orchestrator"], [source |-> "user", confidence |-> 9],
     [domain |-> "tech", confidence |-> 4]}

\* answers of the metadata model
RawMetas ==
    {[domain |-> d, entity_type |-> "concept", entity_name |-> n, source |-> "wiki",
      confidence |-> c] : d \in {"tech", "cooking"}, n \in {"", "x"},
                          c \in {"0.0", "0.4", "0.9", "1.5", "-0.4", "high"}}
    \cup {[domain |-> "tech", entity_type |-> "concept", source |-> "wiki"],
          [domain |-> "tech", entity_type |-> "robot", entity_name |-> "x",
           source |-> "wiki", confidence |-> "0.9"],
          [domain |-> "tech", entity_type |-> "concept", entity_name |-> "x",
           source |-> "blog", confidence |-> "0.9"],
          [entity_type |-> "concept", entity_name |-> "x", confidence |-> "0.9"]}

InitEnrich ==
    /\ sessions = <<>>
    /\ keys = <<>>
    /\ meta = <<>>
    /\ current = None
    /\ lock = NoProc
    /\ nextId = 0
    /\ pc = [t \in Procs |-> "idle"]
    /\ loc = [t \in Procs |-> FreshLoc("none")]
    /\ running = NoProc
    /\ max_messages = LifeMaxTurns
    /\ max_context_chars = DefaultMaxChars
    /\ collection = <<>>

NextEnrich ==
    \E t \in Procs :
        \/ \E text \in EnrichTexts, metadata \in CallerMetas :
              /\ Cardinality(DOMAIN collection) < MaxDocs
              /\ StartAddText(t, text, metadata)
        \/ \E vector \in EnrichVectors :
              /\ Cardinality(DOMAIN collection) < MaxDocs
              /\ StartAddVector(t, vector)
        \/ \E distance \in [DOMAIN collection -> QueryDistances], top_k \in 1..MaxDocs :
              QueryVector(t, distance, top_k)
        \/ \E distance \in [DOMAIN collection -> QueryDistances], top_k \in 1..MaxDocs :
              QueryText(t, distance, top_k)
        \/ \E raw \in RawMetas : GenerateDone(t, raw)
        \/ GenerateFails(t)
        \/ Finish(t)

EnrichSpec == InitEnrich /\ [][NextEnrich]_vars

-----------------------------------------------------------------------------
(* The topic test of the summarizer (_are_messages_related) and the         *)
(* summaries specification.  A message is the sequence of the chunks that   *)
(* single spaces separate: "cats  eat" is <<"cats", "", "eat">>.            *)

stop_words ==
    {"the", "a", "an", "is", "are", "was", "were", "be", "been",
     "have", "has", "had", "do", "does", "did", "will", "would",
     "could", "should", "may", "might", "must", "shall", "can",
     "need", "dare", "ought", "used", "to", "of", "in", "for",
     "on", "with", "at", "by", "from", "as", "into", "through",
     "during", "before", "after", "above", "below", "between",
     "under", "and", "but", "or", "yet", "so", "if", "because",
     "although", "though", "while", "where", "when", "that",
     "which", "who", "whom", "whose", "what", "this", "these",
     "those", "i", "me", "my", "mine", "myself", "you", "your",
     "yours", "yourself", "he", "him", "his", "himself", "she",
     "her", "hers", "herself", "it", "its", "itself", "we", "us",
     "our", "ours", "ourselves", "they", "them", "their", "theirs",
     "themselves", "am", "being"}

\* str.lower() on the words the messages of the model are written with
LowerWord(word) ==
    CASE word = "Cats" -> "cats"
      [] word = "The" -> "the"
      [] OTHER -> word

\* str.split(): the chunks that are not empty
Split(message) == SelectSeq(message, LAMBDA chunk : chunk # "")

\* set(msg.lower().split())
Words(message) == {LowerWord(word) : word \in Range(Split(message))}

\* a variant of _are_messages_related that compares the words as written
AreMessagesRelatedAsWritten(msg1, msg2) ==
    LET keywords1 == Range(Split(msg1)) \ stop_words
        keywords2 == Range(Split(msg2)) \ stop_words
        overlap == keywords1 \cap keywords2
    IN  IF keywords1 = {} \/ keywords2 = {}
        THEN FALSE
        ELSE 10 * Cardinality(overlap)
                > 3 * Max(Cardinality(keywords1), Cardinality(keywords2))

\* _are_messages_related: similarity = len(overlap) / max(len(keywords1),
\* len(keywords2)) > 0.3, in tenths
AreMessagesRelated(msg1, msg2) ==
    LET keywords1 == Words(msg1) \ stop_words
        keywords2 == Words(msg2) \ stop_words
        overlap == keywords1 \cap keywords2
    IN  IF keywords1 = {} \/ keywords2 = {}
        THEN FALSE
        ELSE 10 * Cardinality(overlap)
                > 3 * Max(Cardinality(keywords1), Cardinality(keywords2))

\* len(word) of the words of the model
WordChars(word) ==
    CASE word = "" -> 0
      [] word \in {"me", "do", "is", "of"} -> 2
      [] word \in {"eat", "the", "The"} -> 3
      [] word \in {"tell", "cats", "Cats", "what"} -> 4
      [] word = "about" -> 5
      [] word = "france" -> 6
      [] word = "capital" -> 7

\* len(message): the chunks and the spaces between them
RECURSIVE MessageChars(_)
MessageChars(message) ==
    IF message = <<>> THEN 0
    ELSE IF Len(message) = 1 THEN WordChars(message[1])
    ELSE WordChars(Head(message)) + 1 + MessageChars(Tail(message))

\* a turn with its message
Spoken(role, message) == Turn(role, MessageChars(message)) @@ [text |-> message]

TellMeAboutCats == <<"tell", "me", "about", "cats">>
WhatDoCatsEat == <<"what", "do", "cats", "eat">>
CapitalOfFrance == <<"what", "is", "the", "capital", "of", "france">>

\* the messages of the user turns
RelateTexts ==
    {TellMeAboutCats, WhatDoCatsEat, CapitalOfFrance,
     <<"Cats">>, <<"cats", "", "eat">>, <<"The", "cats">>,
     <<"tell", "about", "cats", "eat">>, <<"the", "me">>, <<"">>}

\* a session with two user turns that has been idle for longer than the
\* timeout
InitRelate ==
    /\ \E msg1, msg2 \in RelateTexts :
          sessions = [sid \in ClientIds |->
                        <<Spoken("user", msg1), Spoken("user", msg2)>>]
    /\ \E sid \in ClientIds : keys = <<sid>>
    /\ meta = [sid \in ClientIds |-> [idle |-> OverTime]]
    /\ current = None
    /\ lock = NoProc
    /\ nextId = 0
    /\ pc = [t \in Procs |-> "idle"]
    /\ loc = [t \in Procs |-> FreshLoc("none")]
    /\ running = NoProc
    /\ max_messages = TrimMaxTurns
    /\ max_context_chars = DefaultMaxChars
    /\ collection = <<>>

\* the sweep summarizes the session and hands the summary to the store
NextRelate ==
    \E t \in Procs :
        \/ StartCleanup(t)
        \/ StoreDone(t)
        \/ StoreFails(t)
        \/ Finish(t)

RelateSpec == InitRelate /\ [][NextRelate]_vars

-----------------------------------------------------------------------------
(* Properties *)

\* the tasks whose call of get_or_create_session has returned to its caller
GocReturned == {t \in Procs : pc[t] = "done" /\ loc[t].op = "goc"}

\* C1: a session that get_or_create_session finds expired is never returned
\* by that call: the id it returns is not the one it found expired, and it is
\* the id of a session that is in the store and not expired (still active, or
\* created by the call).
C1_ExpiredNeverReturned ==
    \A t \in GocReturned :
        /\ loc[t].ret # loc[t].expired
        /\ loc[t].ret \in DOMAIN sessions
        /\ ~IsSessionExpired(meta, loc[t].ret)

\* a call of get_or_create_session that found the current session expired has
\* returned
C1_Witness == \E t \in GocReturned : loc[t].expired # None

\* C2: overlapping get_or_create_session calls around the expiry of the same
\* current session create one replacement and all return it: a call that found
\* the current session expired and goes on after summarizing it returns the
\* active session that an overlapping call has made current meanwhile.
C2_OneReplacement ==
    [][\A t \in Procs :
          (/\ pc[t] = "store"
           /\ loc[t].after = "goc_remove"
           /\ pc'[t] # "store"
           /\ current # None
           /\ ~IsSessionExpired(meta, current))
          => loc'[t].ret = current]_vars

\* C3: get_all_sessions always returns: no call of it ever waits for the lock
\* while holding that lock itself.
C3_ListNeverBlocks ==
    \A t \in Procs : pc[t] = "gas_info" => ~(lock = t /\ Blocked(World, pc[t]))

NonMarkers(msgs) == {i \in 1..Len(msgs) : ~msgs[i].marker}
Markers(msgs) == {i \in 1..Len(msgs) : msgs[i].marker}

\* C4: after any sequence of appends and budget changes every session holds at
\* most max_messages turns that are not markers, and at most one marker.
C4_TurnBudget ==
    \A sid \in DOMAIN sessions :
        /\ Cardinality(NonMarkers(sessions[sid])) <= max_messages
        /\ Cardinality(Markers(sessions[sid])) <= 1

\* a session filled to its budget, pushed past it by its marker
C4_Witness ==
    \E sid \in DOMAIN sessions :
        /\ max_messages >= 2
        /\ Cardinality(NonMarkers(sessions[sid])) = max_messages
        /\ Cardinality(Markers(sessions[sid])) = 1

\* message_count of get_session_info
TurnCount(sid) == Len(sessions[sid])

\* C5: the turn count of every session is at most max_messages, unless that
\* would leave zero turns (one turn may stay under a budget of 0).
C5_TurnCountWithinBudget ==
    \A sid \in DOMAIN sessions :
        TurnCount(sid) <= (IF max_messages = 0 THEN 1 ELSE max_messages)

\* C5 as amended: the turn count of every session is at most max_messages + 1,
\* and it is above max_messages only when the first turn is the marker.
C5_TurnCountPlusMarker ==
    \A sid \in DOMAIN sessions :
        /\ TurnCount(sid) <= max_messages + 1
        /\ TurnCount(sid) > max_messages => Head(sessions[sid]).marker

\* a session whose turn count is above a budget that is not 0
C5_Witness ==
    \E sid \in DOMAIN sessions : max_messages >= 1 /\ TurnCount(sid) = max_messages + 1

\* C6: whatever the budgets, zero included, the session that add_message
\* appended to holds a turn that is not a marker when add_message returns.
C6_KeepsAConversationalTurn ==
    \A t \in Procs :
        (pc[t] = "done" /\ loc[t].op = "add" /\ loc[t].error = "none")
        => NonMarkers(sessions[loc[t].ret]) # {}

\* C7: no call that stores a summary is in progress while its caller holds
\* the lock.
C7_NoStoreUnderLock == \A t \in Procs : pc[t] = "store" => lock # t

\* the sweep awaits the store of a summary after it took the lock to remove
\* an earlier session
C7_Witness ==
    \E t \in Procs : pc[t] = "store" /\ loc[t].op = "sweep" /\ loc[t].log # <<>>

\* C8: whenever get_or_create_session, force_summarize_current or
\* cleanup_all_expired removes a session from the map, a summarization of that
\* session has ended earlier in the same call.
C8_SummarizedBeforeRemoved ==
    \A t \in Procs :
        \A i \in 1..Len(loc[t].log) :
            loc[t].log[i][1] = "removed"
            => \E j \in 1..(i - 1) : loc[t].log[j] = <<"summarized", loc[t].log[i][2]>>

\* a sweep has returned after it summarized and removed two sessions
C8_Witness ==
    \E t \in Procs :
        /\ pc[t] = "done"
        /\ loc[t].op = "sweep"
        /\ Cardinality({i \in 1..Len(loc[t].log) : loc[t].log[i][1] = "removed"}) = 2

\* C9: a session id that has been removed from the store is never the id of a
\* session again.  Stated for the ids of _generate_session_id: each of the
\* first nextId ids has been in the store, so one that is not has been removed.
C9_RemovedIdNeverReused ==
    [][\A n \in 1..nextId :
          GenId(n) \notin DOMAIN sessions => GenId(n) \notin DOMAIN sessions']_vars

\* C10: a session created by add_message with an explicit id is never removed
\* by get_or_create_session or cleanup_all_expired: no call's history of
\* summarize-and-remove holds the removal of such a session.
C10_PinnedNeverSwept ==
    \A t \in Procs, sid \in ClientIds : <<"removed", sid>> \notin Range(loc[t].log)

\* the steps in which task t goes on with cleanup_all_expired after the store
\* of a summary
SweepResumes(t) ==
    pc[t] = "store" /\ loc[t].op = "sweep" /\ loc'[t] # loc[t]

\* C11: cleanup_all_expired never removes a session that is active at the
\* moment of the removal: a session that is in the store and not expired when
\* the sweep goes on to its removal steps is still in the store, with its
\* turns, after them.
C11_SweepSparesActive ==
    [][\A t \in Procs : SweepResumes(t) =>
          \A sid \in DOMAIN sessions :
              ~IsSessionExpired(meta, sid)
              => sid \in DOMAIN sessions' /\ sessions'[sid] = sessions[sid]]_vars

\* A handler run without concurrent traffic: nothing else happens while it
\* awaits, so every store of a summary ends at once.  stored counts the
\* summaries it handed to the vector index.
RECURSIVE Alone(_, _, _, _, _)
Alone(t, w, where, l, stored) ==
    LET r == Run(t, w, where, l)
    IN  IF r.pc = "store"
        THEN LET n == StoreSummary(t, r.w, r.l) IN Alone(t, n.w, n.pc, n.l, stored + 1)
        ELSE [w |-> r.w, pc |-> r.pc, l |-> r.l, stored |-> stored]

\* no handler is running
Quiet == \A t \in Procs : pc[t] = "idle"

\* cleanup_all_expired run alone on the shared state w
SweepAlone(w) ==
    Alone(CHOOSE t \in Procs : TRUE, w, "sweep_scan", FreshLoc("sweep"), 0)

ExpiredIn(w) == {sid \in DOMAIN w.sessions : IsSessionExpired(w.meta, sid)}

\* C12: run without concurrent traffic, cleanup_all_expired removes exactly the
\* sessions that are expired when it starts and leaves every active session,
\* its turns and its last access as they were; a second sweep right after it
\* changes nothing and stores no summary.
C12_SweepExactAndIdempotent ==
    Quiet =>
        LET first == SweepAlone(World)
            second == SweepAlone(first.w)
        IN  /\ first.pc = "done"
            /\ DOMAIN first.w.sessions = DOMAIN sessions \ ExpiredIn(World)
            /\ \A sid \in DOMAIN first.w.sessions :
                  /\ first.w.sessions[sid] = sessions[sid]
                  /\ first.w.meta[sid] = meta[sid]
            /\ second.pc = "done"
            /\ second.w = first.w
            /\ second.stored = 0

\* a state in which the sweep stores the summary of an expired session,
\* removes it and leaves an active session
C12_Witness ==
    /\ Quiet
    /\ SweepAlone(World).stored >= 1
    /\ ExpiredIn(World) # {}
    /\ DOMAIN sessions \ ExpiredIn(World) # {}

\* the session that was current when force_summarize_current began: the
\* first one the call summarized
ForceStart(l) == IF l.log = <<>> THEN None ELSE l.log[1][2]

\* C13: force_summarize_current returns the id of a session that did not exist
\* when the call began, and when it returns the session that was current at
\* the start of the call has been summarized and is not in the store.
C13_ForceRotates ==
    \A t \in Procs :
        (pc[t] = "done" /\ loc[t].op = "force") =>
            /\ \E n \in (loc[t].seen + 1)..nextId : loc[t].ret = GenId(n)
            /\ ForceStart(loc[t]) # None
               => /\ loc[t].log[1][1] = "summarized"
                  /\ ForceStart(loc[t]) \notin DOMAIN sessions

\* the steps in which the store of a summary by task t fails
StoreFailure(t) ==
    /\ pc[t] = "store"
    /\ Len(loc'[t].log) > Len(loc[t].log)
    /\ loc'[t].log[Len(loc[t].log) + 1] = <<"failed", loc[t].expired>>

\* C14: a failed store of a summary never reaches the caller and blocks
\* neither rotation nor ingestion: in the step that follows the failure the
\* handler raises nothing, the summarized session is removed,
\* get_or_create_session creates a session, makes it current and returns it,
\* and add_message appends its turn to that session.
C14_StoreFailureSwallowed ==
    [][\A t \in Procs : StoreFailure(t) =>
          LET l == loc[t]
              new == GenId(nextId + 1)
              turn == Turn(l.role, l.chars)
          IN  /\ loc'[t].error = "none"
              /\ l.expired \notin DOMAIN sessions'
              /\ l.op \in {"goc", "force"} /\ pc'[t] = "done"
                 => loc'[t].ret \in DOMAIN sessions' \ {l.expired}
              /\ l.op \in {"goc", "add", "chat"}
                 => /\ new \in DOMAIN sessions' /\ current' = new
                    /\ loc'[t].ret = new
              /\ l.op = "goc" => pc'[t] = "done"
              /\ l.op = "add"
                 => pc'[t] = "done" /\ sessions'[new] = <<turn>>
              /\ l.op = "chat"
                 => pc'[t] = "chat_rag" /\ sessions'[new] = <<turn>>]_vars

\* an add_message whose rotation met a failed store has returned
C14_Witness ==
    \E t \in Procs :
        /\ pc[t] = "done"
        /\ loc[t].op = "add"
        /\ loc[t].error = "none"
        /\ \E i \in 1..Len(loc[t].log) : loc[t].log[i][1] = "failed"

\* C15: in every reachable state the pointer self._current_session_id is
\* unset or is the id of a session that is in the store and not expired.
C15_PointerActive ==
    current # None => current \in DOMAIN sessions /\ ~IsSessionExpired(meta, current)

\* C15 as amended: in every reachable state the pointer is unset or is the id
\* of a session that is in the store, and that session is not expired
\* whenever get_or_create_session has just returned.
C15_PointerInStore ==
    /\ current # None => current \in DOMAIN sessions /\ current \in DOMAIN meta
    /\ \A t \in GocReturned : current # None /\ ~IsSessionExpired(meta, current)

\* the pointer references a session that expired and that no call has
\* looked at since
C15_Witness ==
    /\ current # None
    /\ current \in DOMAIN sessions
    /\ IsSessionExpired(meta, current)

\* C16: a call of get_or_create_session that begins while the session an
\* earlier call returned is still current and less than the timeout has
\* passed since its last access returns that session's id and creates no
\* session.
C16_StableInWindow ==
    [][\A t \in Procs :
          (/\ pc[t] = "idle"
           /\ loc'[t].op = "goc"
           /\ current \in DOMAIN meta
           /\ meta[current].idle < Timeout)
          => /\ pc'[t] = "done"
             /\ loc'[t].ret = current
             /\ current' = current
             /\ nextId' = nextId
             /\ DOMAIN sessions' = DOMAIN sessions]_vars

\* get_or_create_session has returned a session that holds turns: one that
\* was there before the call
C16_Witness ==
    \E t \in GocReturned :
        /\ loc[t].ret = current
        /\ loc[t].expired = None
        /\ sessions[current] # <<>>

\* the tasks whose call of run_rag_with_scores has ended
RagEnded == {t \in Procs : pc[t] = "done" /\ loc[t].op = "rag"}

\* C17: retrieval degrades per source: a call of run_rag_with_scores does not
\* fail; when the long-term search gave nothing (it failed, or it found
\* nothing) the result is the short-term matches, and when the short-term
\* pass gave nothing (no match, no session) it is the long-term results
C17_DegradesPerSource ==
    \A t \in RagEnded :
        /\ loc[t].error = "none"
        /\ loc[t].long_term_results = <<>> => loc[t].ret.results = loc[t].stm_results
        /\ loc[t].stm_results = <<>> =>
              Range(loc[t].ret.results) = Range(loc[t].long_term_results)

\* the tasks whose call of run_rag_with_scores has returned its response
RagReturned == {t \in RagEnded : loc[t].error = "none"}

IsShortTerm(snippet) == snippet.source = "short_term_memory"

\* C18: every short-term match carries the similarity score 100, and in the
\* fused result every short-term snippet stands before every long-term
\* snippet of a distance above 0
C18_ExactMatchesFirst ==
    \A t \in RagReturned :
        LET stm == loc[t].stm_results
            results == loc[t].ret.results
        IN  /\ \A i \in 1..Len(stm) : stm[i].similarity_score = 100
            /\ \A i, j \in 1..Len(results) :
                  /\ IsShortTerm(results[i]) => results[i].similarity_score = 100
                  /\ (IsShortTerm(results[i]) /\ ~IsShortTerm(results[j])
                        /\ results[j].distance > 0) => i < j

\* a response that holds a short-term match and a long-term snippet of a
\* distance above 0
C18_Witness ==
    \E t \in RagReturned :
        \E i, j \in 1..Len(loc[t].ret.results) :
            /\ IsShortTerm(loc[t].ret.results[i])
            /\ ~IsShortTerm(loc[t].ret.results[j])
            /\ loc[t].ret.results[j].distance > 0

\* the place of the i-th snippet of a list in the list sorted by
\* non-increasing score with equal scores in the order of the list
Place(list, i) ==
    1 + Cardinality({j \in 1..Len(list) :
            \/ list[j].similarity_score > list[i].similarity_score
            \/ list[j].similarity_score = list[i].similarity_score /\ j < i})

\* C19: the fused result is the short-term list followed by the long-term
\* list, sorted by non-increasing score with equal scores in that order, cut
\* to at most top_k snippets; the two breakdown counts add up to its length
C19_FusedResult ==
    \A t \in RagReturned :
        LET both == loc[t].stm_results \o loc[t].long_term_results
            ret == loc[t].ret
        IN  /\ Len(ret.results) = Min(loc[t].top_k, Len(both))
            /\ \A i \in 1..Len(both) :
                  Place(both, i) <= loc[t].top_k => ret.results[Place(both, i)] = both[i]
            /\ ret.short_term + ret.long_term = Len(ret.results)

\* a response cut to top_k in which a long-term snippet of score 100 stands
\* behind a short-term one and before a long-term one that came earlier
C19_Witness ==
    \E t \in RagReturned :
        LET both == loc[t].stm_results \o loc[t].long_term_results
            results == loc[t].ret.results
        IN  /\ Len(both) > loc[t].top_k
            /\ Len(results) = 2
            /\ IsShortTerm(results[1])
            /\ ~IsShortTerm(results[2])
            /\ results[2].similarity_score = 100
            /\ results[2] # loc[t].long_term_results[1]

\* the tasks whose update_metadata_in_chroma has merged and written back
Enriched == {t \in Procs : pc[t] = "done" /\ loc[t].op = "add_text"
                            /\ loc[t].error = "none"}

NewWins(l) == Get(l.metadata, "confidence", 0) >= Get(l.old_meta, "confidence", 0)

MetadataObjects ==
    {collection[d] : d \in DOMAIN collection}
    \cup UNION {{loc[t].old_meta, loc[t].metadata, loc[t].merged} : t \in Enriched}

\* C21: merge(A, A) = A for every metadata object A, and the merge of a
\* stored object with a new one of strictly lower confidence is the stored
\* object unchanged
C21_MergeIdempotent ==
    /\ \A A \in MetadataObjects : MergeMetadata(A, A) = A
    /\ \A t \in Enriched :
          loc[t].metadata.confidence < loc[t].old_meta.confidence
              => loc[t].merged = loc[t].old_meta

\* an enrichment whose generated metadata had the lower confidence
C21_Witness ==
    \E t \in Enriched :
        /\ loc[t].metadata.confidence < loc[t].old_meta.confidence
        /\ loc[t].metadata.domain # Get(loc[t].old_meta, "domain", "missing")
        /\ loc[t].old_meta \in MetadataObjects

\* the tasks whose generate_metadata validated an answer of the model
Validated == {t \in Enriched : loc[t].parsed # <<>>}

\* the answer's domain, entity_type or source is outside its allowed set, or
\* its confidence is no number in [0,1]
Rejected(parsed) ==
    \/ Get(parsed, "domain", "missing") \notin {"movies", "sports", "tech", "general"}
    \/ Get(parsed, "entity_type", "missing") \notin
          {"fictional_character", "real_person", "organization", "concept", "unknown"}
    \/ Get(parsed, "source", "missing") \notin {"user", "wiki", "pdf", "web", "memory"}
    \/ Get(parsed, "confidence", "0.0") \notin {"0.0", "0.4", "0.9", "1.0"}

WellFormed(metadata) ==
    /\ Get(metadata, "domain", "missing") \in {"movies", "sports", "tech", "general"}
    /\ Get(metadata, "entity_type", "missing") \in
          {"fictional_character", "real_person", "organization", "concept", "unknown"}
    /\ Get(metadata, "source", "missing") \in {"user", "wiki", "pdf", "web", "memory"}
    /\ "confidence" \in DOMAIN metadata
    /\ 0 <= metadata.confidence /\ metadata.confidence <= 10

\* C23: every record of the vector index has well-formed metadata at every
\* moment from its insertion on
C23_RecordsWellFormed == \A d \in DOMAIN collection : WellFormed(collection[d])

\* the tasks whose /query_vector has answered
Queried == {t \in Procs : pc[t] = "done" /\ loc[t].op = "query_vector"}

\* the records whose enrichment has not ended
Pending == {loc[t].doc_id : t \in {q \in Procs : pc[q] = "generate"}}

\* C24: a record added by /add_text is queryable before its enrichment ends:
\* a search whose vector is at distance 0 from it and whose top_k covers the
\* collection returns it
C24_PendingQueryable ==
    \A t \in Queried : \A d \in Pending :
        (loc[t].distance[d] = 0 /\ loc[t].top_k >= Cardinality(DOMAIN collection))
            => d \in loc[t].results

\* C25: after the trimmer has run on a session, the text lengths of the turns
\* left in it add up to at most max_chars, or exactly one turn is left
C25_FitsOrOneTurn ==
    \A sid \in DOMAIN sessions :
        \/ SumChars(sessions[sid]) <= max_context_chars
        \/ Len(sessions[sid]) = 1

\* a session trimmed down to one turn that is over the char budget although
\* the turn budget allows more, and a task that has just appended to it
C25_Witness ==
    \E sid \in DOMAIN sessions : \E t \in Procs :
        /\ pc[t] = "done" /\ loc[t].op = "add" /\ loc[t].ret = sid
        /\ Len(sessions[sid]) = 1
        /\ SumChars(sessions[sid]) > max_context_chars
        /\ max_messages >= 2

\* ids a caller may ask for that are not in the store
AbsentIds == (KnownIds \cup {GenId(nextId + 1)}) \ DOMAIN sessions

\* C26: asking for a session id that is not in the store changes nothing and
\* gives an empty result: get_session_messages an empty list,
\* get_session_info no info, the short-term search no match
C26_AbsentIsEmpty ==
    \A sid \in AbsentIds :
        /\ GetMessages(World, sid) = World
        /\ SessionMessages(GetMessages(World, sid), sid) = <<>>
        /\ InfoOf(World, sid) = None
        /\ \A query \in FuseQueries \cup {<<>>} :
              SearchShortTermMemory(SessionMessages(GetMessages(World, sid), sid),
                                    query, 1) = <<>>

\* a session that was removed is asked for while another one is stored
C26_Witness ==
    \E n \in 1..nextId :
        /\ GenId(n) \in AbsentIds
        /\ DOMAIN sessions # {}
        /\ \E sid \in DOMAIN sessions : sessions[sid] # <<>>

\* the sessions a task found expired and has not removed yet: the
\* expired_session of get_or_create_session, the session the sweep is at and
\* the rest of its expired_sessions
Detected(t) ==
    IF pc[t] \in {"idle", "done"}
    THEN {}
    ELSE IF loc[t].op \in {"goc", "add", "chat"}
         THEN {loc[t].expired} \ {None}
         ELSE IF loc[t].op = "sweep"
              THEN ({loc[t].expired} \ {None}) \cup Range(loc[t].todo)
              ELSE {}

\* C27: an operation that found the current session expired
\* (get_or_create_session, cleanup_all_expired) has cleared the pointer in
\* the critical section of the detection: while the operation goes on to
\* summarize and remove that session, the pointer does not name it
C27_ClearedOnDetection ==
    \A t \in Procs : current = None \/ current \notin Detected(t)

\* the part of C27 about get_or_create_session alone
C27_RotationClears ==
    \A t \in Procs : loc[t].op \in {"goc", "add", "chat"} =>
        (current = None \/ current \notin Detected(t))

C27_RotationWitness ==
    \E t \in Procs : /\ loc[t].op \in {"goc", "add", "chat"}
                     /\ pc[t] = "store"
                     /\ Detected(t) # {}

\* add_message has just returned from appending to the session it returns
Appended(t) ==
    /\ pc[t] = "idle" /\ pc'[t] = "done"
    /\ loc'[t].op = "add" /\ loc'[t].error = "none"

\* C28: the char-budget step never removes the marker: a session that holds
\* a marker still holds one after every later trim, and an append whose
\* turn-count step removed a turn (and so prepended a marker) leaves a
\* marker in the session
C28_MarkerSkipped ==
    [][/\ \A sid \in DOMAIN sessions \cap DOMAIN sessions' :
             Markers(sessions[sid]) # {} => Markers(sessions'[sid]) # {}
       /\ \A t \in Procs :
             (/\ Appended(t)
              /\ loc'[t].ret \in DOMAIN sessions
              /\ Len(sessions[loc'[t].ret]) + 1 > max_messages)
                => Markers(sessions'[loc'[t].ret]) # {}]_vars

\* the turns that are not markers which a trim of the list before, ending in
\* the list after, removed in its char-budget step although the turns then
\* left (the removed one included) added up to at most mc
EvictedWithinBudget(before, after, mm, mc) ==
    LET counted == WithMarker(CountTrim(before, mm), Len(before))
        gone == Len(counted) - Len(after)
    IN  {i \in 1..gone : /\ ~counted[i].marker
                         /\ SumChars(SubSeq(counted, i, Len(counted))) <= mc}

\* set_context_limits has just run: the only step that leaves every task
\* where it is
LimitsSet == pc' = pc /\ loc' = loc /\ DOMAIN sessions' = DOMAIN sessions

\* C29: the char-budget step removes a turn only while the text lengths of
\* the turns still in the list add up to more than max_chars: neither an
\* append nor a change of the budgets evicts a conversational turn once the
\* turns left fit the budget
C29_EvictsOnlyOverBudget ==
    [][/\ \A t \in Procs :
             (/\ Appended(t)
              /\ loc'[t].ret \in DOMAIN sessions
              /\ max_messages >= 1)
                => LET sid == loc'[t].ret
                       turn == sessions'[sid][Len(sessions'[sid])]
                   IN  EvictedWithinBudget(Append(sessions[sid], turn), sessions'[sid],
                                           max_messages, max_context_chars) = {}
       /\ LimitsSet =>
             \A sid \in DOMAIN sessions :
                 EvictedWithinBudget(sessions[sid], sessions'[sid],
                                     max_messages', max_context_chars') = {}]_vars

\* the shared state after a handler that task t runs from the present state
\* to its end
AfterMessages(sid) == GetMessages(World, sid)
AfterAppend(t, sid) == Run(t, World, "add_ensure", AddLoc("add", "user", 10, sid)).w
AfterInfo(t, sid) == Run(t, World, "info", [FreshLoc("info") EXCEPT !.sid = sid]).w

\* last_accessed of sid is the current time
Refreshed(w, sid) ==
    sid \in DOMAIN w.meta /\ w.meta[sid].idle = 0 /\ ~IsSessionExpired(w.meta, sid)

\* C30: every read (get_session_messages, get_session_info) and every write
\* (add_message) of a stored session sets its last_accessed to the current
\* time, so that the session is not expired after it
C30_EveryAccessRefreshes ==
    lock = NoProc =>
        \A sid \in DOMAIN sessions : \A t \in Procs :
            /\ Refreshed(AfterMessages(sid), sid)
            /\ Refreshed(AfterAppend(t, sid), sid)
            /\ Refreshed(AfterInfo(t, sid), sid)

\* C30 as amended: get_session_messages and add_message set last_accessed of
\* a stored session to the current time, so that the session is not expired
\* after them; get_session_info leaves last_accessed as it is
C30_TurnAccessRefreshes ==
    lock = NoProc =>
        \A sid \in DOMAIN sessions : \A t \in Procs :
            /\ Refreshed(AfterMessages(sid), sid)
            /\ Refreshed(AfterAppend(t, sid), sid)
            /\ AfterInfo(t, sid).meta = meta

\* a stored session with turns that has gone a whole timeout, and one that
\* has gone longer, without an access, while no one holds the lock
C30_Witness ==
    /\ lock = NoProc
    /\ \E sid \in DOMAIN sessions : sessions[sid] # <<>> /\ meta[sid].idle = Timeout
    /\ \E sid \in DOMAIN sessions : IsSessionExpired(meta, sid)

\* C31: a session is ACTIVE exactly while its idle time is below the
\* timeout: once the idle time has reached the timeout, the value equal to the
\* timeout included, _is_session_expired holds and get_or_create_session does
\* not hand the session out again
C31_ExpiredAtTimeout ==
    /\ \A sid \in DOMAIN meta :
          IsSessionExpired(meta, sid) <=> ~(meta[sid].idle < Timeout)
    /\ \A t \in Procs :
          (current # None /\ ~(meta[current].idle < Timeout))
             => LET r == GocCheck(t, World, FreshLoc("goc"))
                IN  ~(r.pc = "done" /\ r.l.ret = current)

\* the turns of a list that are not markers, in the order of the list
Conversation(msgs) == SelectSeq(msgs, LAMBDA m : ~m.marker)

IsSuffix(a, b) ==
    Len(a) <= Len(b) /\ a = SubSeq(b, Len(b) - Len(a) + 1, Len(b))

\* C32: the turns of a session that are not markers are always a contiguous
\* suffix of the turns appended to it, in the order of the appends: in every
\* step they become a suffix of what they were, or, when an append to the
\* session has just returned, a suffix of what they were followed by the
\* appended turn
C32_SuffixOfAppends ==
    [][\A sid \in DOMAIN sessions' :
          LET old == IF sid \in DOMAIN sessions
                     THEN Conversation(sessions[sid]) ELSE <<>>
              new == Conversation(sessions'[sid])
          IN  \/ IsSuffix(new, old)
              \/ /\ \E t \in Procs : Appended(t) /\ loc'[t].ret = sid
                 /\ new # <<>>
                 /\ IsSuffix(new, Append(old, new[Len(new)]))]_vars

\* a session that has lost a turn: a marker in front of two turns of different
\* lengths, in a state an append has just left
C32_Witness ==
    \E sid \in DOMAIN sessions : \E t \in Procs :
        /\ pc[t] = "done" /\ loc[t].op = "add" /\ loc[t].ret = sid
        /\ Markers(sessions[sid]) # {}
        /\ Len(Conversation(sessions[sid])) = 2
        /\ Conversation(sessions[sid])[1].chars # Conversation(sessions[sid])[2].chars
        /\ max_messages = 3

\* task t ends the summarization it awaited and removes the summarized
\* session sid in the same step
RemovesSummarized(t, sid) ==
    /\ pc[t] = "store" /\ loc'[t] # loc[t]
    /\ loc[t].expired = sid
    /\ sid \in DOMAIN sessions /\ sid \notin DOMAIN sessions'

\* C33: no turn is dropped unsummarized: every turn that is in a session when
\* get_or_create_session, force_summarize_current or cleanup_all_expired
\* removes it was in the turn list that was summarized, also when add_message
\* ran on that session while the summary was being stored
C33_NoTurnDroppedUnsummarized ==
    [][\A t \in Procs : \A sid \in DOMAIN sessions :
          RemovesSummarized(t, sid)
             => Range(sessions[sid]) \subseteq Range(loc[t].summed)]_vars

\* the tasks that have handed a summary of sid to the vector index and await
\* the end of add_text
Storing(sid) == {t \in Procs : pc[t] = "store" /\ loc[t].expired = sid}

\* C34: at most one summary of a session is handed to the vector index, also
\* when cleanup_all_expired, get_or_create_session and force_summarize_current
\* overlap on it: a task removes the session in the step that ends its store
\* call, so a second summary of the same session is one handed over while the
\* first is still being stored
C34_OneSummaryPerSession ==
    \A sid \in DOMAIN sessions : Cardinality(Storing(sid)) <= 1

\* C35: add_message never fails on a missing session: whatever clear_session,
\* force_summarize_current and cleanup_all_expired did meanwhile, no call ends
\* with a KeyError, and when add_message returns, the id it returns is in the
\* store and the turn it appended is the last turn of that session
C35_AppendFindsSession ==
    \A t \in Procs :
        /\ loc[t].error # "KeyError"
        /\ (pc[t] = "done" /\ loc[t].op = "add")
              => /\ loc[t].ret \in DOMAIN sessions
                 /\ sessions[loc[t].ret] # <<>>
                 /\ sessions[loc[t].ret][Len(sessions[loc[t].ret])] \in
                       {Turn(role, chars) : role \in LifeRoles, chars \in LifeChars}

\* add_message returns after get_or_create_session removed the expired
\* session for it, while the other task is inside a rotation or a sweep
C35_Witness ==
    \E t, q \in Procs :
        /\ pc[t] = "done" /\ loc[t].op = "add"
        /\ \E i \in 1..Len(loc[t].log) : loc[t].log[i][1] = "removed"
        /\ pc[q] = "store"

\* C36: in every reachable state self._sessions and self._session_metadata
\* have the same session ids as keys, and the pointer, when set, is one of them
C36_MapsAgree ==
    /\ DOMAIN sessions = DOMAIN meta
    /\ Range(keys) = DOMAIN sessions
    /\ current # None => current \in DOMAIN sessions

\* a generated session has been removed, two sessions are stored and one of
\* them is current
C36_Witness ==
    /\ \E n \in 1..nextId : GenId(n) \notin DOMAIN sessions
    /\ Cardinality(DOMAIN sessions) >= 2
    /\ current # None

\* the positions of the user turns of a list, and for a user turn at i the
\* position of the first assistant turn behind it that no later user turn
\* precedes, or 0
UserTurns(msgs) == {i \in 1..Len(msgs) : msgs[i].role = "user"}

NextAssistant(msgs, i) ==
    LET answers == {j \in (i + 1)..Len(msgs) :
                       /\ msgs[j].role = "assistant"
                       /\ \A k \in (i + 1)..j : msgs[k].role # "user"}
    IN  IF answers = {} THEN 0 ELSE CHOOSE j \in answers : \A k \in answers : j <= k

\* the user turns before position i
Before(msgs, i) == Cardinality({j \in UserTurns(msgs) : j < i})

\* the part of C37 about the user halves: one pair per user turn, in turn
\* order, whatever system and marker turns stand between them
C37_PairPerUserTurn ==
    \A sid \in DOMAIN sessions :
        LET msgs == sessions[sid]
            pairs == ConversationPairs(msgs)
        IN  /\ Len(pairs) = Cardinality(UserTurns(msgs))
            /\ \A i \in UserTurns(msgs) :
                  pairs[Before(msgs, i) + 1].user = <<msgs[i].chars>>

\* C37: the summarizer reduces a turn list to exactly one pair per user turn,
\* in turn order; the assistant half of a pair is the next assistant turn
\* behind the user turn and before the following user turn, or null when
\* there is none; system and marker turns enter no pair
C37_OnePairPerUserTurn ==
    \A sid \in DOMAIN sessions :
        LET msgs == sessions[sid]
            pairs == ConversationPairs(msgs)
        IN  /\ Len(pairs) = Cardinality(UserTurns(msgs))
            /\ \A i \in UserTurns(msgs) :
                  LET pair == pairs[Before(msgs, i) + 1]
                      j == NextAssistant(msgs, i)
                  IN  /\ pair.user = <<msgs[i].chars>>
                      /\ pair.assistant = IF j = 0 THEN None ELSE <<msgs[j].chars>>

\* the messages of the user turns of a session
UserTexts(msgs) == {msgs[i].text : i \in UserTurns(msgs)}

\* the keyword set of the claim: the lower-cased whitespace tokens of a text
\* that are not stop words
KeywordsOf(text) ==
    {LowerWord(text[i]) : i \in {k \in 1..Len(text) : text[k] # ""}} \ stop_words

Larger(S, T) == IF Cardinality(S) >= Cardinality(T) THEN Cardinality(S) ELSE Cardinality(T)

\* C38: two user texts are related iff both keyword sets are non-empty and
\* |intersection| / max(|set1|, |set2|) > 0.3; the test is symmetric, a text
\* with an empty keyword set is related to nothing, itself included, "tell me
\* about cats" and "what do cats eat" are related, "tell me about cats" and
\* "what is the capital of france" are not
C38_RelatedIffOverlap ==
    \A sid \in DOMAIN sessions : \A a, b \in UserTexts(sessions[sid]) :
        /\ AreMessagesRelated(a, b)
              <=> /\ KeywordsOf(a) # {} /\ KeywordsOf(b) # {}
                  /\ 10 * Cardinality(KeywordsOf(a) \cap KeywordsOf(b))
                        > 3 * Larger(KeywordsOf(a), KeywordsOf(b))
        /\ AreMessagesRelated(a, b) <=> AreMessagesRelated(b, a)
        /\ KeywordsOf(a) = {} => ~AreMessagesRelated(a, b) /\ ~AreMessagesRelated(a, a)
        /\ (a = TellMeAboutCats /\ b = WhatDoCatsEat) => AreMessagesRelated(a, b)
        /\ (a = TellMeAboutCats /\ b = CapitalOfFrance) => ~AreMessagesRelated(a, b)

\* the sweep awaits the store of the summary of a session whose two user
\* turns are the related pair of the claim
C38_Witness ==
    \E t \in Procs : \E sid \in DOMAIN sessions :
        /\ pc[t] = "store" /\ loc[t].expired = sid
        /\ sessions[sid][1].text = TellMeAboutCats
        /\ sessions[sid][2].text = WhatDoCatsEat

\* the tasks whose search has returned, and the domain filter of their route
Searched == {t \in Procs : pc[t] = "done" /\ loc[t].op \in {"query_vector", "query_text"}}

DomainOf(t) == IF loc[t].op = "query_text" THEN "general" ELSE ""

\* seq holds each of its elements once, in the order they have in whole
KeepsOrder(seq, whole) ==
    seq = SelectSeq(whole, LAMBDA d : d \in Range(seq))

\* C39: every candidate the filtered search returns is within max_distance
\* and passed the confidence >= min_confidence filter of the index query,
\* AND-ed with the domain and entity-type filters when they are given; the
\* result keeps the order of the index and may hold fewer than top_k
\* candidates, none included, without an error
C39_FilteredSearch ==
    \A t \in Searched :
        LET r == loc[t].ranked
            index == IndexQuery(collection, loc[t].distance, loc[t].top_k, DomainOf(t), "")
        IN  /\ loc[t].error = "none"
            /\ Len(r) <= loc[t].top_k
            /\ Range(r) = loc[t].results
            /\ KeepsOrder(r, index)
            /\ \A i \in 1..Len(r) :
                  /\ loc[t].distance[r[i]] <= MaxDistance
                  /\ collection[r[i]].confidence >= MinConfidence
                  /\ DomainOf(t) # "" =>
                        Get(collection[r[i]], "domain", "missing") = DomainOf(t)
            /\ \A i, j \in 1..Len(r) :
                  i < j => loc[t].distance[r[i]] <= loc[t].distance[r[j]]
            /\ \A entity_type \in ALLOWED_ENTITY_TYPES :
                  \A d \in Range(SearchRanked(collection, loc[t].distance, loc[t].top_k,
                                             DomainOf(t), entity_type)) :
                      /\ Get(collection[d], "entity_type", "missing") = entity_type
                      /\ collection[d].confidence >= MinConfidence
                      /\ loc[t].distance[d] <= MaxDistance

\* a search for two candidates that returned one: the index held two records
\* that pass the confidence filter, the nearer within max_distance, the other
\* beyond it
C39_Witness ==
    \E t \in Searched :
        /\ loc[t].top_k = 2
        /\ Len(loc[t].ranked) = 1
        /\ Len(IndexQuery(collection, loc[t].distance, loc[t].top_k, DomainOf(t), "")) = 2

\* a search that returned two candidates at different distances
C39_OrderWitness ==
    \E t \in Searched :
        /\ Len(loc[t].ranked) = 2
        /\ loc[t].distance[loc[t].ranked[1]] < loc[t].distance[loc[t].ranked[2]]

====
